---- MODULE Spec2Model ----
(***************************************************************************)
(* Model of the search-and-scrape MCP server (src/main.py): the two tools  *)
(* `search` and `scrape`, the process-wide requests.Session they share,    *)
(* and the HTML extraction that `scrape` performs on a fetched page.       *)
(***************************************************************************)
EXTENDS Integers, Sequences, FiniteSets, TLC

(***************************************************************************)
(* Bounds of the model.                                                    *)
(***************************************************************************)
\* Number of tool invocations that may be blocked in their HTTP call at once.
MaxInflight == 2
\* Number of top-level fragments a fetched page is assembled from.
MaxItems == 2

(***************************************************************************)
(* Python values.  Text is a sequence of one-character strings, so that    *)
(* len(), strip() and slicing count characters.                            *)
(***************************************************************************)
None == [t |-> "none", s |-> <<>>]
Str(s) == [t |-> "str", s |-> s]

\* content[:5000], src/main.py line 134
ContentLimit == 5000

IsSpace(c) == c \in {" ", "\n", "\t"}

\* s[:n] for n >= 0
Slice(s, n) == SubSeq(s, 1, IF Len(s) < n THEN Len(s) ELSE n)

RECURSIVE lstrip(_)
lstrip(s) == IF s = <<>> \/ ~IsSpace(Head(s)) THEN s ELSE lstrip(Tail(s))

RECURSIVE rstrip(_)
rstrip(s) ==
  IF s = <<>> \/ ~IsSpace(s[Len(s)]) THEN s ELSE rstrip(SubSeq(s, 1, Len(s) - 1))

\* str.strip()
strip(s) == rstrip(lstrip(s))

(***************************************************************************)
(* The document tree BeautifulSoup builds.  A document is the sequence of  *)
(* its nodes in document order, each with its depth below the root; `live` *)
(* holds the nodes still attached to the tree.                             *)
(***************************************************************************)
Elem(tag, depth) ==
  [tag |-> tag, depth |-> depth, text |-> <<>>, name |-> "", property |-> "",
   content |-> None]
Text(s, depth) ==
  [tag |-> "#text", depth |-> depth, text |-> s, name |-> "", property |-> "",
   content |-> None]
Meta(name, property, content, depth) ==
  [tag |-> "meta", depth |-> depth, text |-> <<>>, name |-> name,
   property |-> property, content |-> content]

\* BeautifulSoup(response.text, 'html.parser')
BeautifulSoup(nodes) == [nodes |-> nodes, live |-> 1..Len(nodes)]

\* An element together with everything below it.
Subtree(nodes, i) ==
  {i} \cup {j \in (i + 1)..Len(nodes) :
              \A k \in (i + 1)..j : nodes[k].depth > nodes[i].depth}

Children(soup, i) ==
  {j \in Subtree(soup.nodes, i) \cap soup.live :
     soup.nodes[j].depth = soup.nodes[i].depth + 1}

RECURSIVE InOrderFrom(_, _, _)
InOrderFrom(S, i, n) ==
  IF i > n THEN <<>>
  ELSE (IF i \in S THEN <<i>> ELSE <<>>) \o InOrderFrom(S, i + 1, n)

\* soup([...]): every attached element with one of the tags, in document order.
find_all(soup, tags) ==
  InOrderFrom({i \in soup.live : soup.nodes[i].tag \in tags}, 1, Len(soup.nodes))

\* element.decompose(): detach the element and destroy its subtree.
decompose(soup, i) == [soup EXCEPT !.live = @ \ Subtree(soup.nodes, i)]

\* Faulty variant of RemovedTags: only what the comment at line 125 names.
RemovedTags_script_style == {"script", "style"}

\* The tags whose elements are removed before text extraction.
RemovedTags == {"script", "style", "iframe"}

\* for element in soup(['script', 'style', 'iframe']): element.decompose()
RECURSIVE DecomposeEach(_, _)
DecomposeEach(soup, elements) ==
  IF elements = <<>> THEN soup
  ELSE DecomposeEach(decompose(soup, Head(elements)), Tail(elements))

RemoveElements(soup) == DecomposeEach(soup, find_all(soup, RemovedTags))

\* The stripped, non-empty strings of the attached text nodes from node i on.
RECURSIVE stripped_strings(_, _)
stripped_strings(soup, i) ==
  IF i > Len(soup.nodes) THEN <<>>
  ELSE LET s == strip(soup.nodes[i].text)
       IN (IF i \in soup.live /\ soup.nodes[i].tag = "#text" /\ s # <<>>
             THEN <<s>> ELSE <<>>) \o stripped_strings(soup, i + 1)

RECURSIVE join(_, _)
join(sep, strings) ==
  IF strings = <<>> THEN <<>>
  ELSE IF Len(strings) = 1 THEN Head(strings)
  ELSE Head(strings) \o sep \o join(sep, Tail(strings))

\* soup.get_text(separator='\n', strip=True)
get_text(soup) == join(<<"\n">>, stripped_strings(soup, 1))

\* soup.find(tag, ...): the first attached element that matches, 0 if none.
find(soup, tag, name, property) ==
  LET m == {i \in soup.live :
              /\ soup.nodes[i].tag = tag
              /\ name # "" => soup.nodes[i].name = name
              /\ property # "" => soup.nodes[i].property = property}
  IN IF m = {} THEN 0 ELSE CHOOSE i \in m : \A j \in m : i <= j

\* Tag.string: the single string below the tag, None unless there is exactly one.
RECURSIVE string(_, _)
string(soup, i) ==
  LET kids == Children(soup, i)
  IN IF Cardinality(kids) # 1 THEN None
     ELSE LET c == CHOOSE k \in kids : TRUE
          IN IF soup.nodes[c].tag = "#text" THEN Str(soup.nodes[c].text)
             ELSE string(soup, c)

\* Tag.get('content'): the attribute's value, None when the tag has none.
get_content(soup, i) == soup.nodes[i].content


(***************************************************************************)
(* scrape: lines 122-169, the work done on a fetched response.             *)
(***************************************************************************)
MetaKeys == {"title", "description", "keywords", "og_title", "og_description"}

\* The element each metadata key is looked up from (lines 144-163), 0 if none.
MetaElement(soup, key) ==
  CASE key = "title" -> find(soup, "title", "", "")
    [] key = "description" -> find(soup, "meta", "description", "")
    [] key = "keywords" -> find(soup, "meta", "keywords", "")
    [] key = "og_title" -> find(soup, "meta", "", "og:title")
    [] key = "og_description" -> find(soup, "meta", "", "og:description")

\* The metadata dict of lines 141-165: a key for every element found.
metadata(soup) ==
  [key \in {k \in MetaKeys : MetaElement(soup, k) # 0} |->
     IF key = "title" THEN string(soup, MetaElement(soup, key))
     ELSE get_content(soup, MetaElement(soup, key))]

\* Faulty variant of result: the content is stored uncut.
result_uncut(content, url, status_code) ==
  [content |-> content, url |-> url, status |-> status_code]

\* Lines 133-137.
result(content, url, status_code) ==
  [content |-> Slice(content, ContentLimit), url |-> url, status |-> status_code]

\* Faulty variant of add_metadata: the mapping is attached only when a field was found.
add_metadata_if_found(res, include_metadata, soup) ==
  IF include_metadata /\ DOMAIN metadata(soup) # {}
    THEN [content |-> res.content, url |-> res.url, status |-> res.status,
          metadata |-> metadata(soup)]
    ELSE res

\* Lines 140-167: result['metadata'] = metadata, only inside `if include_metadata`.
add_metadata(res, include_metadata, soup) ==
  IF include_metadata
    THEN [content |-> res.content, url |-> res.url, status |-> res.status,
          metadata |-> metadata(soup)]
    ELSE res

\* Lines 123-169 on a response whose markup the parser accepts.
scrape_page(url, include_metadata, response) ==
  LET soup == RemoveElements(BeautifulSoup(response.body.nodes))
      content == get_text(soup)
  IN add_metadata(result(content, url, response.status_code), include_metadata, soup)

(***************************************************************************)
(* Exceptions: an exception is its message and the classes it is an        *)
(* instance of; an except clause catches it when its class is among them.  *)
(***************************************************************************)
Exc(classes, msg) == [classes |-> classes, msg |-> msg]

ConnectionError ==
  Exc({"ConnectionError", "RequestException", "OSError", "Exception"},
      "connection refused")
Timeout ==
  Exc({"Timeout", "RequestException", "OSError", "Exception"}, "read timed out")
HTTPError ==
  Exc({"HTTPError", "RequestException", "OSError", "Exception"}, "HTTP error status")
\* response.json() on a body that is not JSON.  requests >= 2.27 raises
\* requests.exceptions.JSONDecodeError, which is both a RequestException and a
\* json.JSONDecodeError; older releases raise json.JSONDecodeError itself.
RequestsJSONDecodeError ==
  Exc({"requests.JSONDecodeError", "InvalidJSONError", "RequestException", "OSError",
       "JSONDecodeError", "ValueError", "Exception"}, "Expecting value")
JSONDecodeError ==
  Exc({"JSONDecodeError", "ValueError", "Exception"}, "Expecting value")
JSONErrors == {RequestsJSONDecodeError, JSONDecodeError}
\* results.get(...) on a JSON value that is not an object.
AttributeError ==
  Exc({"AttributeError", "Exception"}, "object has no attribute 'get'")
\* BeautifulSoup(...) on markup html.parser gives up on.
ParserRejectedMarkup ==
  Exc({"ParserRejectedMarkup", "Exception"}, "parser rejected markup")

Return(value) == [kind |-> "return", value |-> value, exc |-> Exc({}, "")]
Raise(exc) == [kind |-> "raise", value |-> <<>>, exc |-> exc]

\* The first except clause that catches e, 0 when none does.
FirstMatch(handlers, e) ==
  LET m == {i \in 1..Len(handlers) : handlers[i].cls \in e.classes}
  IN IF m = {} THEN 0 ELSE CHOOSE i \in m : \A j \in m : i <= j

\* Faulty variant of raises_for_status: the status is never looked at.
raises_for_status_never(status_code) == FALSE

\* response.raise_for_status(): 4xx and 5xx raise HTTPError.
raises_for_status(status_code) == status_code >= 400 /\ status_code < 600

(***************************************************************************)
(* scrape: the try body and its except clauses, lines 113-178.             *)
(***************************************************************************)
\* Faulty variant of scrape_handlers: no catch-all clause.
scrape_handlers_no_catch_all ==
  << [cls |-> "RequestException", prefix |-> "Error fetching URL: "] >>

\* The except clauses of scrape, lines 171 and 175.
scrape_handlers ==
  << [cls |-> "RequestException", prefix |-> "Error fetching URL: "],
     [cls |-> "Exception", prefix |-> "Error scraping content: "] >>

\* Lines 113-169: what the try body does with the outcome of session.get.
scrape_try(url, include_metadata, response) ==
  IF response.kind = "exception" THEN Raise(response.exc)
  ELSE IF raises_for_status(response.status_code) THEN Raise(HTTPError)
  ELSE IF response.body.markup # "ok" THEN Raise(ParserRejectedMarkup)
  ELSE Return(scrape_page(url, include_metadata, response))

\* Lines 113-178.
scrape_outcome(url, include_metadata, response) ==
  LET body == scrape_try(url, include_metadata, response)
      h == FirstMatch(scrape_handlers, body.exc)
  IN IF body.kind = "return" THEN body
     ELSE IF h = 0 THEN body
     ELSE Return([error |-> <<scrape_handlers[h].prefix, body.exc.msg>>, url |-> url])


(***************************************************************************)
(* search: lines 47-98.  A str is modelled as the sequence of its pieces.  *)
(***************************************************************************)
\* Python truthiness of None, a str and a list: `not v`.
Falsy(v) == v.t = "none" \/ v.s = <<>>

List(s) == [t |-> "list", s |-> s]

\* Faulty variant of missing_key: `if api_key is None`.
missing_key_is_none(api_key) == api_key = None

\* Line 49: if not api_key
missing_key(api_key) == Falsy(api_key)

\* Line 50.
MissingKeyMsg == <<"Error: SERPER_API_KEY environment variable is not set">>
\* Line 82.
NoResultsMsg == <<"No results found for the query">>

\* json.dumps of one organic hit, a dict, at indent=2 inside a list.
dumps_hit(hit) ==
  << "{", "\n    ", "\"title\"", ": ", "\"", hit.title, "\"", ",",
     "\n    ", "\"link\"", ": ", "\"", hit.link, "\"", "\n  ", "}" >>

RECURSIVE dumps_items(_)
dumps_items(hits) ==
  IF hits = <<>> THEN <<>>
  ELSE <<"\n  ">> \o dumps_hit(Head(hits))
       \o (IF Len(hits) > 1 THEN <<",">> ELSE <<>>) \o dumps_items(Tail(hits))

\* json.dumps(organic_results, indent=2), line 85.
dumps(hits) ==
  IF hits = <<>> THEN <<"[]">> ELSE <<"[">> \o dumps_items(hits) \o <<"\n", "]">>

\* The except clauses of search, lines 87, 91 and 95.
search_handlers ==
  << [cls |-> "RequestException", prefix |-> "Error making API request: "],
     [cls |-> "JSONDecodeError", prefix |-> "Error parsing API response: "],
     [cls |-> "Exception", prefix |-> "Error occurred during search: "] >>

\* results.get("organic", []), line 79.
get_organic(body) == IF body.has_organic THEN body.organic ELSE List(<<>>)

\* Faulty variant of no_results: `if organic_results is None`.
no_results_is_none(organic_results) == organic_results = None

\* Line 81: if not organic_results
no_results(organic_results) == Falsy(organic_results)

\* Lines 54-85: what the try body does with the outcome of session.post;
\* json_error is the exception this build's response.json() raises.
search_try(response, json_error) ==
  IF response.kind = "exception" THEN Raise(response.exc)
  ELSE IF raises_for_status(response.status_code) THEN Raise(HTTPError)
  ELSE IF response.body.json = "malformed" THEN Raise(json_error)
  ELSE IF response.body.json # "object" THEN Raise(AttributeError)
  ELSE LET organic_results == get_organic(response.body)
       IN IF no_results(organic_results) THEN Return(NoResultsMsg)
          ELSE Return(dumps(organic_results.s))

\* Lines 54-98.
search_outcome(response, json_error) ==
  LET body == search_try(response, json_error)
      h == FirstMatch(search_handlers, body.exc)
  IN IF body.kind = "return" THEN body
     ELSE IF h = 0 THEN body
     ELSE Return(<<search_handlers[h].prefix, body.exc.msg>>)

(***************************************************************************)
(* The shared requests.Session, lines 26-33, and the requests it sends.    *)
(***************************************************************************)
\* session.headers after line 28-33.
StartupHeaders ==
  [h \in {"User-Agent", "Accept", "Accept-Language", "Connection"} |->
     CASE h = "User-Agent" -> "Mozilla/5.0"
       [] h = "Accept" -> "text/html"
       [] h = "Accept-Language" -> "en-US"
       [] h = "Connection" -> "keep-alive"]

\* The session after module import: the headers above, an empty cookie jar.
StartupSession == [headers |-> StartupHeaders, cookies |-> {}]

SerperUrl == "https://google.serper.dev/search"

\* Per-request headers laid over the session's.
merge_headers(base, extra) ==
  [h \in DOMAIN base \cup DOMAIN extra |-> IF h \in DOMAIN extra THEN extra[h] ELSE base[h]]

\* The request session.get / session.post puts on the wire: the session's
\* headers under the call's own, and the jar's cookies for the host.
prepare_request(sess, method, url, headers, json) ==
  [method |-> method, url |-> url, headers |-> merge_headers(sess.headers, headers),
   cookies |-> {c \in sess.cookies : c.host = url}, json |-> json]

\* Lines 56-59.
payload(query) == [q |-> query, num |-> 2]

\* A request without a JSON body.
NoPayload == [q |-> "", num |-> 0]

\* Lines 62-65.
search_headers(api_key) ==
  [h \in {"X-API-KEY", "Content-Type"} |->
     IF h = "X-API-KEY" THEN api_key ELSE "application/json"]

NoHeaders == [h \in {} |-> ""]

\* The session after session.get / session.post got a response: a
\* requests.Session keeps the cookies a response sets (Set-Cookie) in its jar,
\* also when raise_for_status then rejects the response, and sends them with
\* later requests to the same host.
extract_cookies(sess, url, response) ==
  IF response.kind = "response" /\ response.set_cookie
    THEN [sess EXCEPT !.cookies = @ \cup {[host |-> url, name |-> "sid"]}]
    ELSE sess


(***************************************************************************)
(* What the network can answer.                                            *)
(***************************************************************************)
NoBody == [markup |-> "none", nodes |-> <<>>, json |-> "none",
           has_organic |-> FALSE, organic |-> None]

\* No response: the transport raised.
TransportError(e) ==
  [kind |-> "exception", exc |-> e, status_code |-> 0, body |-> NoBody,
   set_cookie |-> FALSE]

HttpResponse(status_code, body, set_cookie) ==
  [kind |-> "response", exc |-> Exc({}, ""), status_code |-> status_code,
   body |-> body, set_cookie |-> set_cookie]

NoResponse == TransportError(Exc({}, ""))

PageBody(nodes) == [NoBody EXCEPT !.markup = "ok", !.nodes = nodes]
RejectedBody == [NoBody EXCEPT !.markup = "rejected"]
JsonBody(json, has_organic, organic) ==
  [NoBody EXCEPT !.json = json, !.has_organic = has_organic, !.organic = organic]

\* A text of exactly ContentLimit characters.
LongText == [i \in 1..ContentLimit |-> "a"]

\* The fragments pages are assembled from; "x" is text only of removed elements.
Items ==
  { << Elem("p", 1), Text(<<" ", "a", " ">>, 2) >>,
    << Text(<<" ", "\n">>, 1) >>,
    << Elem("p", 1), Text(<<" ">> \o LongText, 2) >>,
    << Elem("script", 1), Text(<<"x">>, 2) >>,
    << Elem("div", 1), Text(<<"b">>, 2), Elem("script", 2), Text(<<"x">>, 3),
       Text(<<"c">>, 2) >>,
    << Elem("style", 1), Text(<<"x">>, 2) >>,
    << Elem("iframe", 1), Elem("script", 2), Text(<<"x">>, 3), Elem("p", 2),
       Text(<<"x", "x">>, 3) >>,
    << Elem("title", 1), Text(<<"T">>, 2) >>,
    << Elem("title", 1) >>,
    << Meta("description", "", Str(<<"D">>), 1) >>,
    << Meta("description", "", None, 1) >>,
    << Meta("keywords", "", Str(<<>>), 1) >>,
    << Meta("", "og:title", Str(<<"O">>), 1) >>,
    << Meta("", "og:description", Str(<<"G">>), 1) >> }

RECURSIVE Flatten(_)
Flatten(items) == IF items = <<>> THEN <<>> ELSE Head(items) \o Flatten(Tail(items))

\* Every page of at most n fragments.
Pages(n) == UNION {{Flatten(f) : f \in [1..k -> Items]} : k \in 0..n}

\* <title>T</title><meta name="description" content="D"><script>x</script><p> a </p>
ExamplePage ==
  << Elem("title", 1), Text(<<"T">>, 2), Meta("description", "", Str(<<"D">>), 1),
     Elem("script", 1), Text(<<"x">>, 2), Elem("p", 1), Text(<<" ", "a", " ">>, 2) >>

SamplePages == {ExamplePage, <<>>, << Elem("p", 1), Text(<<"b">>, 2) >>}

Urls == {"http://a"}
Queries == {"q"}

PageResponses(pages) == {HttpResponse(200, PageBody(p), FALSE) : p \in pages}

ScrapeResponses ==
  {TransportError(ConnectionError), TransportError(Timeout)}
    \cup {HttpResponse(200, PageBody(p), c) : p \in SamplePages, c \in BOOLEAN}
    \cup {HttpResponse(404, PageBody(ExamplePage), c) : c \in BOOLEAN}
    \cup {HttpResponse(500, PageBody(<<>>), FALSE), HttpResponse(200, RejectedBody, FALSE)}

Hit1 == [title |-> "A", link |-> "l1"]
Hit2 == [title |-> "B", link |-> "l2"]
OrganicLists == {<<>>, <<Hit1>>, <<Hit1, Hit2>>, <<Hit2, Hit1>>}

SearchResponses ==
  {TransportError(ConnectionError), TransportError(Timeout)}
    \cup {HttpResponse(st, JsonBody("object", FALSE, None), FALSE) : st \in {404, 500}}
    \cup {HttpResponse(200, JsonBody(j, FALSE, None), FALSE) :
            j \in {"malformed", "array", "object"}}
    \cup {HttpResponse(200, JsonBody("object", TRUE, None), FALSE)}
    \cup {HttpResponse(200, JsonBody("object", TRUE, List(l)), c) :
            l \in OrganicLists, c \in BOOLEAN}

\* os.getenv('SERPER_API_KEY'): unset, set to the empty string, or set.
KeyValues == {None, Str(<<>>), Str(<<"k">>)}

(***************************************************************************)
(* State.                                                                  *)
(***************************************************************************)
VARIABLES
  SERPER_API_KEY,  \* the environment variable read at line 48
  session,         \* the module-level requests.Session of line 27
  inflight,        \* the tool calls blocked in session.post / session.get
  returned         \* the tool call that returned last, with what it sent and got

vars == <<SERPER_API_KEY, session, inflight, returned>>

Slots == 1..MaxInflight

Call(tool, arg, include_metadata, api_key, sent) ==
  [tool |-> tool, arg |-> arg, include_metadata |-> include_metadata,
   api_key |-> api_key, sent |-> sent]

Idle == Call("idle", "", FALSE, None, <<>>)

Returned(call, response, outcome) ==
  [tool |-> call.tool, arg |-> call.arg, include_metadata |-> call.include_metadata,
   api_key |-> call.api_key, sent |-> call.sent, response |-> response,
   outcome |-> outcome]

Init ==
  /\ SERPER_API_KEY \in KeyValues
  /\ session = StartupSession
  /\ inflight = [s \in Slots |-> Idle]
  /\ returned = Returned(Idle, NoResponse, Return(<<>>))

\* search, lines 48-52: no credential, return the error at once.
search_no_key(query) ==
  /\ missing_key(SERPER_API_KEY)
  /\ returned' = Returned(Call("search", query, FALSE, SERPER_API_KEY, <<>>),
                          NoResponse, Return(MissingKeyMsg))
  /\ UNCHANGED <<SERPER_API_KEY, session, inflight>>

\* search, lines 48-74: the POST goes out and the call blocks in it.
search_post(s, query) ==
  /\ ~missing_key(SERPER_API_KEY)
  /\ inflight[s] = Idle
  /\ inflight' = [inflight EXCEPT ![s] =
       Call("search", query, FALSE, SERPER_API_KEY,
            <<prepare_request(session, "POST", SerperUrl,
                              search_headers(SERPER_API_KEY), payload(query))>>)]
  /\ UNCHANGED <<SERPER_API_KEY, session, returned>>

\* search, lines 68-98: the POST ends and the call returns.
search_response(s, response, json_error) ==
  /\ inflight[s].tool = "search"
  /\ session' = extract_cookies(session, SerperUrl, response)
  /\ returned' = Returned(inflight[s], response, search_outcome(response, json_error))
  /\ inflight' = [inflight EXCEPT ![s] = Idle]
  /\ UNCHANGED SERPER_API_KEY

\* scrape, lines 113-119: the GET goes out and the call blocks in it.
scrape_get(s, url, include_metadata) ==
  /\ inflight[s] = Idle
  /\ inflight' = [inflight EXCEPT ![s] =
       Call("scrape", url, include_metadata, None,
            <<prepare_request(session, "GET", url, NoHeaders, NoPayload)>>)]
  /\ UNCHANGED <<SERPER_API_KEY, session, returned>>

\* scrape, lines 115-178: the GET ends and the call returns.
scrape_response(s, response) ==
  /\ inflight[s].tool = "scrape"
  /\ session' = extract_cookies(session, inflight[s].arg, response)
  /\ returned' = Returned(inflight[s], response,
                          scrape_outcome(inflight[s].arg, inflight[s].include_metadata,
                                         response))
  /\ inflight' = [inflight EXCEPT ![s] = Idle]
  /\ UNCHANGED SERPER_API_KEY

Next ==
  \/ \E q \in Queries : search_no_key(q)
  \/ \E s \in Slots, q \in Queries : search_post(s, q)
  \/ \E s \in Slots, r \in SearchResponses, e \in JSONErrors : search_response(s, r, e)
  \/ \E s \in Slots, u \in Urls, m \in BOOLEAN : scrape_get(s, u, m)
  \/ \E s \in Slots, r \in ScrapeResponses : scrape_response(s, r)

\* The server under concurrent tool calls.
Spec == Init /\ [][Next]_vars

(***************************************************************************)
(* One scrape call, blocked in its GET, answered with any page of at most  *)
(* MaxItems fragments.                                                     *)
(***************************************************************************)
InitScrape ==
  /\ SERPER_API_KEY = None
  /\ session = StartupSession
  /\ \E m \in BOOLEAN :
       inflight = [s \in Slots |->
         IF s = 1
           THEN Call("scrape", "http://a", m, None,
                     <<prepare_request(session, "GET", "http://a", NoHeaders, NoPayload)>>)
           ELSE Idle]
  /\ returned = Returned(Idle, NoResponse, Return(<<>>))

NextScrape == \E r \in PageResponses(Pages(MaxItems)) : scrape_response(1, r)

SpecScrape == InitScrape /\ [][NextScrape]_vars


(***************************************************************************)
(* Properties.                                                             *)
(***************************************************************************)
ScrapeReturned == returned.tool = "scrape"
SearchReturned == returned.tool = "search"
Responded == returned.response.kind = "response"
SuccessShape(r) ==
  DOMAIN r \in {{"content", "url", "status"}, {"content", "url", "status", "metadata"}}
FailureShape(r) == DOMAIN r = {"error", "url"}
ScrapeSucceeded ==
  ScrapeReturned /\ returned.outcome.kind = "return" /\ SuccessShape(returned.outcome.value)
Page == returned.response.body.nodes

C2_NoNullOrEmptyMetadata ==
  (ScrapeSucceeded /\ returned.include_metadata)
    => LET md == returned.outcome.value.metadata
       IN /\ DOMAIN md \subseteq MetaKeys
          /\ \A k \in DOMAIN md : md[k] # None /\ md[k].s # <<>>

\* Whether node j lies inside a script, style or iframe element of the page.
InsideRemoved(nodes, j) ==
  \E i \in 1..j :
    nodes[i].tag \in {"script", "style", "iframe"} /\ j \in Subtree(nodes, i)

\* The trimmed non-empty texts of the page's text nodes outside every script,
\* style and iframe element, in document order.
RECURSIVE VisibleFragments(_, _)
VisibleFragments(nodes, j) ==
  IF j > Len(nodes) THEN <<>>
  ELSE (IF /\ nodes[j].tag = "#text"
           /\ ~InsideRemoved(nodes, j)
           /\ strip(nodes[j].text) # <<>>
          THEN <<strip(nodes[j].text)>> ELSE <<>>) \o VisibleFragments(nodes, j + 1)

\* C3: the content of a success record is made only of the text outside script,
\* style and iframe subtrees of the fetched page; no character of the text inside
\* them ("x" in every page of the model) appears in it.
C3_NoRemovedText ==
  ScrapeSucceeded
    => LET content == returned.outcome.value.content
       IN /\ content = Slice(join(<<"\n">>, VisibleFragments(Page, 1)), ContentLimit)
          /\ \A i \in 1..Len(content) : content[i] # "x"

C3_Witness ==
  /\ ScrapeSucceeded
  /\ returned.outcome.value.content = <<"b", "\n", "c">>
  /\ \E j \in 1..Len(Page) : Page[j].tag = "script" /\ Page[j].depth = 2
  /\ \E j \in 1..Len(Page) : Page[j].tag = "iframe"

\* C4: every scrape call returns (never raises) exactly one record, of the success
\* shape {content, url, status [, metadata]} or of the failure shape {error, url},
\* never with keys of both, and its url is the input URL.
C4_OneWellFormedRecord ==
  ScrapeReturned
    => /\ returned.outcome.kind = "return"
       /\ SuccessShape(returned.outcome.value) # FailureShape(returned.outcome.value)
       /\ returned.outcome.value.url = returned.arg

C4_Witness ==
  /\ ScrapeReturned /\ Responded
  /\ returned.response.body.markup = "rejected"
  /\ returned.outcome.kind = "return"
  /\ FailureShape(returned.outcome.value)
  /\ returned.outcome.value.url = returned.arg

\* C5: the content of a success record is exactly the first min(5000, n)
\* characters of the n-character extracted text, cut by character count.
C5_ContentIsPrefix ==
  ScrapeSucceeded
    => LET content == returned.outcome.value.content
           text == get_text(RemoveElements(BeautifulSoup(Page)))
           n == Len(text)
       IN /\ Len(content) = IF n < ContentLimit THEN n ELSE ContentLimit
          /\ Len(content) <= ContentLimit
          /\ \A i \in 1..Len(content) : content[i] = text[i]

C5_Witness ==
  /\ ScrapeSucceeded
  /\ Len(get_text(RemoveElements(BeautifulSoup(Page)))) = ContentLimit + 2
  /\ Len(returned.outcome.value.content) = ContentLimit
  /\ returned.outcome.value.content[2] = "\n"

\* C6: a success record has a metadata key exactly when include_metadata was
\* true, also when no metadata field was found on the page.
C6_MetadataIffRequested ==
  ScrapeSucceeded
    => (("metadata" \in DOMAIN returned.outcome.value) <=> returned.include_metadata)

C6_Witness ==
  /\ ScrapeSucceeded /\ returned.include_metadata
  /\ "metadata" \in DOMAIN returned.outcome.value
  /\ DOMAIN returned.outcome.value.metadata = {}

\* C7: a search call made while SERPER_API_KEY is unset or empty returns the
\* missing-credential message and sends nothing: it has no request on the wire
\* when it returns, and it is never blocked in a POST.
C7_NoKeyNoRequest ==
  /\ (SearchReturned /\ Falsy(returned.api_key))
       => /\ returned.outcome = Return(MissingKeyMsg)
          /\ returned.sent = <<>>
  /\ Falsy(SERPER_API_KEY) => \A s \in Slots : inflight[s].tool # "search"

C7_Witness ==
  /\ SearchReturned /\ returned.api_key = Str(<<>>)
  /\ returned.outcome = Return(MissingKeyMsg)
  /\ returned.sent = <<>>

\* C8: search never raises and reports a missing credential, a transport or HTTP
\* failure and a malformed-JSON response with three different messages: the
\* malformed-JSON response with the parse-failure message.
C8_ThreeFailureMessages ==
  SearchReturned
    => /\ returned.outcome.kind = "return"
       /\ Falsy(returned.api_key) => returned.outcome.value = MissingKeyMsg
       /\ (~Falsy(returned.api_key)
             /\ (~Responded \/ raises_for_status(returned.response.status_code)))
            => returned.outcome.value[1] = "Error making API request: "
       /\ (~Falsy(returned.api_key) /\ Responded
             /\ ~raises_for_status(returned.response.status_code)
             /\ returned.response.body.json = "malformed")
            => returned.outcome.value[1] = "Error parsing API response: "

\* The list an indented JSON array of hits deserializes to.
loads(tokens) ==
  LET t == SelectSeq(tokens, LAMBDA x : x \notin {"\n", "\n  ", "\n    "})
  IN IF t = <<"[]">> THEN <<>>
     ELSE [k \in 1..((Len(t) - 1) \div 14) |->
             [title |-> t[14 * (k - 1) + 6], link |-> t[14 * (k - 1) + 12]]]

\* A 2xx answer to a search that had a credential.
SearchAnswered ==
  /\ SearchReturned /\ ~Falsy(returned.api_key) /\ Responded
  /\ ~raises_for_status(returned.response.status_code)

\* What C9 says of an answer: the sentinel exactly when the organic list is absent
\* or empty, otherwise the serialized list, order and entries unchanged.
SentinelOrList ==
  LET body == returned.response.body
      value == returned.outcome.value
      empty == body.json # "object" \/ ~body.has_organic \/ Falsy(body.organic)
  IN /\ returned.outcome.kind = "return"
     /\ empty => value = NoResultsMsg
     /\ ~empty => /\ value # NoResultsMsg
                  /\ value[1] = "["
                  /\ loads(value) = body.organic.s

\* C9 as claimed: for every 2xx response with a parseable JSON body.
C9_AnyJsonBody ==
  (SearchAnswered /\ returned.response.body.json # "malformed") => SentinelOrList

\* C9 amended: for every 2xx response whose body is a JSON object.
C9_JsonObjectBody ==
  (SearchAnswered /\ returned.response.body.json = "object") => SentinelOrList

C9_Witness ==
  /\ SearchAnswered /\ returned.response.body.json = "object"
  /\ returned.response.body.has_organic
  /\ returned.response.body.organic = List(<<Hit2, Hit1>>)
  /\ loads(returned.outcome.value) = <<Hit2, Hit1>>

\* C10: under any interleaving of search and scrape calls no call changes state
\* shared across calls: the process-wide session is after every call what it was
\* at startup.  (That a call's outcome is decided by its input and its response
\* alone is how search_outcome and scrape_outcome are built.)
C10_SessionAsAtStartup == session = StartupSession

====
